---------------------------- MODULE Spec2Model ----------------------------
(***************************************************************************)
(* surl (src/surl.py): one command-line invocation obtains, persists and   *)
(* refreshes a (root, discharge) macaroon pair and forwards one request to *)
(* the store.  The model follows main() statement by statement; every      *)
(* network call is a step whose response is drawn from a small set.        *)
(* Invocations run one after the other over the same credential directory. *)
(***************************************************************************)
EXTENDS Naturals, Sequences, FiniteSets

(* Bounds of the model. *)
MaxInvocations == 2
MaxTok == 2

VARIABLES
    fs,           \* the credential directory: path -> file text
    fs0,          \* the directory as it was when the invocation started
    inv,          \* invocations started so far
    pc,           \* position of the running invocation in main()
    args,         \* parsed command line: -a, --force, -s, -e, -p
    reqargs,      \* parsed command line: url, -H, --pretty
    auth_path,    \* main: auth_path
    auth_exists,  \* main: auth_exists
    loaded,       \* the record read from the store at lines 258-259
    root,         \* main: root
    discharge,    \* main: discharge
    store_env,    \* main: store_env
    url,          \* main: url
    caveat,       \* get_store_authorization: caveat
    sso_data,     \* get_store_authorization: sso_data (caveat_id, otp)
    headers,      \* main: headers['Authorization']
    data,         \* main: data (the auth_data.authorization of the body)
    response,     \* the last response received
    fd,           \* the text buffered in the file opened at line 326
    trace,        \* network calls and file writes of the invocation, in order
    outcome,      \* how the invocation ended
    msg,          \* what it printed when it ended with an error
    todo,         \* --list-auth: entries of os.listdir not yet visited
    stdout,       \* --list-auth: the (identifier, environment) lines printed
    peer          \* what another invocation loading the same identifier met

vars == <<fs, fs0, inv, pc, args, reqargs, auth_path, auth_exists, loaded,
          root, discharge, store_env, url, caveat, sso_data, headers,
          data, response, fd, trace, outcome, msg, todo, stdout, peer>>

(* What only --list-auth and a concurrent invocation touch. *)
aside == <<todo, stdout, peer>>

---------------------------------------------------------------------------
(* Environments (lines 70-93), with the defaults of the 'local' entry.     *)

Envs == {"local", "staging", "production"}

EnvConstants(env) ==
    CASE env = "local" ->
           [sso_location |-> "login.staging.ubuntu.com",
            sso_base_url |-> "https://login.staging.ubuntu.com",
            sca_base_url |-> "http://0.0.0.0:8000"]
      [] env = "staging" ->
           [sso_location |-> "login.staging.ubuntu.com",
            sso_base_url |-> "https://login.staging.ubuntu.com",
            sca_base_url |-> "https://dashboard.staging.snapcraft.io"]
      [] env = "production" ->
           [sso_location |-> "login.ubuntu.com",
            sso_base_url |-> "https://login.ubuntu.com",
            sca_base_url |-> "https://dashboard.snapcraft.io"]

---------------------------------------------------------------------------
(* Tokens.  A serialised macaroon is opaque to surl; what the program sees *)
(* of it is whether pymacaroons can deserialize it, its third-party        *)
(* caveats, and the bound discharge prepare_for_request makes of a pair.   *)

Missing == [t |-> "missing", n |-> 0]
Garbage == [t |-> "garbage", n |-> 0]
RootTok(n) == [t |-> "R", n |-> n]
DTok(n) == [t |-> "D", n |-> n]

Deserializable(tok) == tok.t \in {"R", "D"}

Cav(loc, id) == [location |-> loc, caveat_id |-> id]

(* The caveats of the root tokens the SCA stub can issue. *)
third_party_caveats(tok) ==
    CASE tok = RootTok(0) -> <<>>
      [] tok = RootTok(1) -> <<Cav("login.staging.ubuntu.com", "c1")>>
      [] tok = RootTok(2) -> <<Cav("login.ubuntu.com", "c2")>>
      [] tok = RootTok(3) -> <<Cav("login.ubuntu.com", "c2"),
                               Cav("login.staging.ubuntu.com", "c1")>>
      [] tok = RootTok(4) -> <<Cav("login.staging.ubuntu.com", "c1"),
                               Cav("login.staging.ubuntu.com", "c3")>>
      [] tok = RootTok(5) -> <<Cav("login.ubuntu.com", "c2"),
                               Cav("login.ubuntu.com", "c4")>>
      [] OTHER -> <<>>

RootSamples == {RootTok(n) : n \in 0..5} \cup {Garbage}
DischargeToks == {DTok(n) : n \in 1..MaxTok}

RECURSIVE SelectSeq2(_, _)
SelectSeq2(s, loc) ==
    IF s = <<>> THEN <<>>
    ELSE IF Head(s).location = loc
         THEN <<Head(s)>> \o SelectSeq2(Tail(s), loc)
         ELSE SelectSeq2(Tail(s), loc)

(* Lines 118-121: the list the single-element unpacking is applied to. *)
MatchingCaveats(tok, env) ==
    SelectSeq2(third_party_caveats(tok), EnvConstants(env).sso_location)

(* Lines 143-148. *)
prepare_for_request(r, d) == [t |-> "bound", root |-> r, d |-> d]

CanBind(r, d) == Deserializable(r) /\ Deserializable(d)

get_authorization_header(r, d) ==
    [scheme |-> "Macaroon", root |-> r, discharge |-> prepare_for_request(r, d)]

NoHeader == [scheme |-> "none", root |-> Missing, discharge |-> Missing]


---------------------------------------------------------------------------
(* The credential directory.  A file is absent or holds a text; json.load  *)
(* parses a text into an object or raises JSONDecodeError.                 *)

NoIdent == "<none>"
Idents == {"foo"}

AuthPath(ident) == [ident |-> ident, suffix |-> ".surl"]
LegacyPath(ident) == [ident |-> ident, suffix |-> ""]
NoPath == [ident |-> NoIdent, suffix |-> ""]
Paths == {AuthPath(i) : i \in Idents} \cup {LegacyPath(i) : i \in Idents}

NoEnv == "<missing>"
Conf(r, d, e) == [root |-> r, discharge |-> d, store |-> e]
NullObj == Conf(Missing, Missing, NoEnv)

NoFile == [kind |-> "nofile", obj |-> NullObj]
EmptyText == [kind |-> "empty", obj |-> NullObj]
GarbageText == [kind |-> "garbage", obj |-> NullObj]
BinaryText == [kind |-> "binary", obj |-> NullObj]

(* json.dump(conf, fd, indent=2) and json.load(fd).  The file is opened in *)
(* text mode: json.load first reads it, which raises UnicodeDecodeError on *)
(* bytes that are no text in the locale's encoding, and then parses the    *)
(* text, which raises JSONDecodeError when it is not JSON.                 *)
json_dump(conf) == [kind |-> "json", obj |-> conf]
Decodes(text) == text.kind # "binary"
Parses(text) == text.kind = "json"
json_load(text) == text.obj
HasKey(obj, k) ==
    CASE k = "root" -> obj.root # Missing
      [] k = "discharge" -> obj.discharge # Missing
      [] k = "store" -> obj.store # NoEnv

Exists(f, path) == f[path] # NoFile

(* os.rename on POSIX: the destination is replaced when it exists. *)
os_rename(f, src, dst) == [f EXCEPT ![dst] = f[src], ![src] = NoFile]

(* Lines 246-249: the directory after the legacy file was looked for. *)
MigrateLegacy(f, ident) ==
    IF Exists(f, LegacyPath(ident))
    THEN os_rename(f, LegacyPath(ident), AuthPath(ident))
    ELSE f

(* Files found in the directory before the first invocation. *)
StoredSample == Conf(RootTok(1), DTok(1), "staging")
LegacySample == Conf(RootTok(3), DTok(2), "production")
Dir(a, l) == [p \in Paths |-> IF p.suffix = ".surl" THEN a ELSE l]
InitialDirs ==
    {Dir(a, l) : a \in {NoFile, json_dump(StoredSample)},
                 l \in {NoFile, json_dump(LegacySample)}}
    \cup {Dir(a, NoFile) :
             a \in {GarbageText, BinaryText,
                     json_dump(Conf(RootTok(1), DTok(1), NoEnv))}}

---------------------------------------------------------------------------
(* Responses of the SCA, the SSO and the resource server.                  *)

Resp(st, js, code, mac, dm, nr) ==
    [net |-> "ok", status |-> st, json |-> js, code |-> code,
     macaroon |-> mac, discharge_macaroon |-> dm, needs_refresh |-> nr]
NetFail == [Resp(0, FALSE, "", Missing, Missing, FALSE) EXCEPT !.net = "fail"]
NoResponse == [Resp(0, FALSE, "", Missing, Missing, FALSE) EXCEPT !.net = "none"]

AclResponses ==
    {NetFail, Resp(200, FALSE, "", Missing, Missing, FALSE),
     Resp(200, TRUE, "", Missing, Missing, FALSE)}
    \cup {Resp(200, TRUE, "", r, Missing, FALSE) : r \in RootSamples}

DischargeResponses ==
    {NetFail,
     Resp(401, FALSE, "", Missing, Missing, FALSE),
     Resp(500, FALSE, "", Missing, Missing, FALSE),
     Resp(200, TRUE, "", Missing, Missing, FALSE),
     Resp(401, TRUE, "TWOFACTOR_REQUIRED", Missing, Missing, FALSE),
     Resp(401, TRUE, "TWOFACTOR_REQUIRED", Missing, DTok(1), FALSE),
     Resp(401, TRUE, "INVALID_CREDENTIALS", Missing, Missing, FALSE),
     Resp(403, TRUE, "TWOFACTOR_REQUIRED", Missing, Missing, FALSE),
     Resp(500, TRUE, "", Missing, DTok(1), FALSE)}
    \cup {Resp(200, TRUE, "", Missing, d, FALSE) : d \in DischargeToks}

RefreshResponses ==
    {NetFail,
     Resp(200, FALSE, "", Missing, Missing, FALSE),
     Resp(401, TRUE, "INVALID_CREDENTIALS", Missing, Missing, FALSE),
     Resp(200, TRUE, "", Missing, Missing, FALSE)}
    \cup {Resp(200, TRUE, "", Missing, d, FALSE) :
             d \in DischargeToks \cup {Garbage}}

OutboundResponses ==
    {NetFail, Resp(200, TRUE, "", Missing, Missing, FALSE),
     Resp(401, TRUE, "", Missing, Missing, TRUE)}

(* Faulty variant: any 401 with a JSON body asks for the second factor. *)
TwoFactorOnAny401(r) == r.status = 401 /\ r.json

(* Lines 132-133. *)
TwoFactorRequired(r) ==
    r.status = 401 /\ r.json /\ r.code = "TWOFACTOR_REQUIRED"

---------------------------------------------------------------------------
(* The command line.  parse_args() fixes every option before main() runs;  *)
(* an option is drawn where main() first reads it, which no earlier step   *)
(* can observe.                                                            *)

Unread == "<unread>"
NoValue == "<none>"
StoreChoices == {"staging", "production"}
EmailChoices == {NoValue, "foo@bar.com"}
PermissionChoices == {NoValue, "package_upload"}
UrlChoices == {NoValue, "https://dashboard.snapcraft.io/dev/api/register-name/"}
HeaderChoices == {<<"X-Key: v">>, <<"bad">>, <<"Link: http://x">>}

(* h.split(':') for the sampled -H strings. *)
split(h) ==
    CASE h = "X-Key: v" -> <<"X-Key", " v">>
      [] h = "bad" -> <<"bad">>
      [] h = "Link: http://x" -> <<"Link", " http", "//x">>

(* Lines 303-308: the two-element unpacking fails for some header. *)
InvalidHeader(hs) == \E i \in 1..Len(hs) : Len(split(hs[i])) # 2

NoCaveat == Cav("", "")
NoUrl == <<Unread, "">>
NoPeer == [text |-> NoFile, outcome |-> "none"]
NoSsoData == [caveat_id |-> "", otp |-> FALSE]

---------------------------------------------------------------------------
(* State.                                                                  *)

NoArgs == [auth |-> NoIdent, force |-> FALSE, store |-> Unread,
           email |-> Unread, permissions |-> Unread]
NoReqArgs == [url |-> Unread, headers |-> <<>>, pretty |-> FALSE]

Locals0 ==
    /\ auth_path = NoPath
    /\ auth_exists = FALSE
    /\ loaded = NullObj
    /\ root = Missing
    /\ discharge = Missing
    /\ store_env = NoEnv
    /\ url = NoUrl
    /\ caveat = NoCaveat
    /\ sso_data = NoSsoData
    /\ headers = NoHeader
    /\ data = NoHeader
    /\ response = NoResponse
    /\ fd = NoFile
    /\ trace = <<>>
    /\ outcome = "none"
    /\ msg = ""

Init ==
    /\ fs \in InitialDirs
    /\ fs0 = fs
    /\ inv = 0
    /\ pc = "idle"
    /\ args = NoArgs
    /\ reqargs = NoReqArgs
    /\ Locals0
    /\ todo = {}
    /\ stdout = <<>>
    /\ peer = NoPeer

(* return <code> from main(), or an exception nothing catches. *)
Return(code, text) ==
    /\ pc' = "done"
    /\ outcome' = code
    /\ msg' = text

Running(label) ==
    /\ pc' = label
    /\ UNCHANGED <<outcome, msg>>

(* What a call puts on the wire and the answer it got, or a write to the   *)
(* store.                                                                  *)
AclCall(env, perms, ans) ==
    [op |-> "acl", url |-> EnvConstants(env).sca_base_url,
     permissions |-> perms, answer |-> ans]
DischargeCall(env, sd, ans) ==
    [op |-> "discharge", url |-> EnvConstants(env).sso_base_url,
     caveat_id |-> sd.caveat_id, otp |-> sd.otp, answer |-> ans]
RefreshCall(env, d, ans) ==
    [op |-> "refresh", url |-> EnvConstants(env).sso_base_url,
     discharge_macaroon |-> d, answer |-> ans]
RequestCall(u, h, body, ans) ==
    [op |-> "request", url |-> u, Authorization |-> h, auth_data |-> body,
     answer |-> ans]
WriteEvent(path, conf) ==
    [op |-> "write", path |-> path, conf |-> conf]

---------------------------------------------------------------------------
(* main(), lines 219-253.                                                  *)

(* Line 219: a new invocation starts with fresh locals. *)
ParseArgs ==
    /\ pc \in {"idle", "done"}
    /\ inv < MaxInvocations
    /\ inv' = inv + 1
    /\ fs0' = fs
    /\ \E a \in Idents \cup {NoIdent}, f \in BOOLEAN, s \in StoreChoices :
          args' = [NoArgs EXCEPT !.auth = a, !.force = f, !.store = s]
    /\ reqargs' = NoReqArgs
    /\ auth_path' = NoPath
    /\ auth_exists' = FALSE
    /\ loaded' = NullObj
    /\ root' = Missing
    /\ discharge' = Missing
    /\ store_env' = NoEnv
    /\ url' = NoUrl
    /\ caveat' = NoCaveat
    /\ sso_data' = NoSsoData
    /\ headers' = NoHeader
    /\ data' = NoHeader
    /\ response' = NoResponse
    /\ fd' = NoFile
    /\ trace' = <<>>
    /\ outcome' = "none"
    /\ msg' = ""
    /\ pc' = "migrate"
    /\ UNCHANGED fs
    /\ UNCHANGED aside

(* Lines 245-253. *)
Migrate ==
    /\ pc = "migrate"
    /\ IF args.auth # NoIdent
       THEN /\ auth_path' = AuthPath(args.auth)
            /\ fs' = MigrateLegacy(fs, args.auth)
            /\ auth_exists' = Exists(fs', AuthPath(args.auth))
       ELSE /\ auth_path' = NoPath
            /\ auth_exists' = FALSE
            /\ UNCHANGED fs
    /\ Running("credential")
    /\ UNCHANGED <<fs0, inv, args, reqargs, loaded, root, discharge, store_env,
                   url, caveat, sso_data, headers, data, response, fd, trace>>
    /\ UNCHANGED aside

(* Lines 255-264: the stored credential is read; of what json.load and the *)
(* three subscripts raise only JSONDecodeError is caught.                  *)
Load ==
    /\ pc = "credential"
    /\ auth_exists /\ ~args.force
    /\ LET text == fs[auth_path]
           a == json_load(text)
       IN  IF ~Decodes(text)
           THEN /\ Return("crash", "UnicodeDecodeError")
                /\ UNCHANGED <<loaded, root, discharge, store_env>>
           ELSE IF ~Parses(text)
           THEN /\ Return("exit1", "broken_file")
                /\ UNCHANGED <<loaded, root, discharge, store_env>>
           ELSE IF ~(HasKey(a, "root") /\ HasKey(a, "discharge")
                                       /\ HasKey(a, "store"))
           THEN /\ Return("crash", "KeyError")
                /\ UNCHANGED <<loaded, root, discharge, store_env>>
           ELSE /\ loaded' = a
                /\ root' = a.root
                /\ discharge' = a.discharge
                /\ store_env' = a.store
                /\ Running("build")
    /\ UNCHANGED <<fs, fs0, inv, args, reqargs, auth_path, auth_exists, url,
                   caveat, sso_data, headers, data, response, fd, trace>>
    /\ UNCHANGED aside

---------------------------------------------------------------------------
(* main(), lines 265-280, and get_store_authorization(), lines 96-141.     *)

(* Faulty variant: the message is printed and main() goes on. *)
AuthorizationFailedGoesOn == Running("save")

(* Lines 274-276: whatever get_store_authorization raises. *)
AuthorizationFailed == Return("exit1", "auth_failed")

(* Lines 265-269. *)
CheckEmail ==
    /\ pc = "credential"
    /\ ~(auth_exists /\ ~args.force)
    /\ store_env' = args.store
    /\ \E e \in EmailChoices :
          /\ args' = [args EXCEPT !.email = e]
          /\ IF e = NoValue
             THEN Return("exit1", "needs_email")
             ELSE Running("acl")
    /\ UNCHANGED <<fs, fs0, inv, reqargs, auth_path, auth_exists, loaded, root,
                   discharge, url, caveat, sso_data, headers, data, response,
                   fd, trace>>
    /\ UNCHANGED aside

(* Faulty variant: no permission is sent when none was given. *)
PermissionsAsGiven(p) == IF p = NoValue THEN <<>> ELSE <<p>>

(* Line 104. *)
Permissions(p) == IF p = NoValue THEN <<"package_access">> ELSE <<p>>

(* Faulty variant: the first matching caveat is taken when there are more. *)
CaveatSelectedFirst(tok, env) ==
    Deserializable(tok) /\ Len(MatchingCaveats(tok, env)) >= 1

(* Lines 118-121: one matching caveat, or the unpacking raises. *)
CaveatSelected(tok, env) ==
    Deserializable(tok) /\ Len(MatchingCaveats(tok, env)) = 1

(* Lines 101-121: the root macaroon is requested and its caveat selected. *)
IssueRoot ==
    /\ pc = "acl"
    /\ \E p \in PermissionChoices, r \in AclResponses :
          /\ args' = [args EXCEPT !.permissions = p]
          /\ trace' = Append(trace, AclCall(store_env, Permissions(p), r))
          /\ response' = r
          /\ IF r.net = "ok" /\ r.json /\ r.macaroon # Missing
             THEN /\ root' = r.macaroon
                  /\ IF CaveatSelected(r.macaroon, store_env)
                     THEN /\ caveat' = MatchingCaveats(r.macaroon, store_env)[1]
                          /\ Running("discharge")
                     ELSE /\ AuthorizationFailed
                          /\ UNCHANGED caveat
             ELSE /\ AuthorizationFailed
                  /\ UNCHANGED <<root, caveat>>
    /\ UNCHANGED <<fs, fs0, inv, reqargs, auth_path, auth_exists, loaded,
                   discharge, store_env, url, sso_data, headers, data, fd>>
    /\ UNCHANGED aside

(* Lines 122-130: the first discharge request carries no otp. *)
Discharge ==
    /\ pc = "discharge"
    /\ sso_data' = [caveat_id |-> caveat.caveat_id, otp |-> FALSE]
    /\ \E r \in DischargeResponses :
          /\ trace' = Append(trace, DischargeCall(store_env, sso_data', r))
          /\ response' = r
          /\ IF r.net = "ok"
             THEN Running("twofactor")
             ELSE AuthorizationFailed
    /\ UNCHANGED <<fs, fs0, inv, args, reqargs, auth_path, auth_exists, loaded,
                   root, discharge, store_env, url, caveat, headers, data, fd>>
    /\ UNCHANGED aside

(* Lines 131-138: the request is sent again, with the otp, on the 401      *)
(* TWOFACTOR_REQUIRED answer; response.json() raises on a 401 whose body   *)
(* is not JSON.                                                            *)
TwoFactor ==
    /\ pc = "twofactor"
    /\ IF response.status = 401 /\ ~response.json
       THEN /\ AuthorizationFailed
            /\ UNCHANGED <<sso_data, response, trace>>
       ELSE IF TwoFactorRequired(response)
       THEN /\ sso_data' = [sso_data EXCEPT !.otp = TRUE]
            /\ \E r \in DischargeResponses :
                  /\ trace' = Append(trace, DischargeCall(store_env, sso_data', r))
                  /\ response' = r
                  /\ IF r.net = "ok"
                     THEN Running("extract")
                     ELSE AuthorizationFailed
       ELSE /\ Running("extract")
            /\ UNCHANGED <<sso_data, response, trace>>
    /\ UNCHANGED <<fs, fs0, inv, args, reqargs, auth_path, auth_exists, loaded,
                   root, discharge, store_env, url, caveat, headers, data, fd>>
    /\ UNCHANGED aside

(* Faulty variant: the field is read with .get(), which yields None, a     *)
(* value that is no macaroon, when the body lacks it.                      *)
DischargeOfGet(r) ==
    IF r.json
    THEN IF r.discharge_macaroon = Missing THEN Garbage
         ELSE r.discharge_macaroon
    ELSE Missing

(* Lines 139 and 157: the discharge the response carries; response.json()  *)
(* or the subscript raises when it carries none.                           *)
DischargeOf(r) == IF r.json THEN r.discharge_macaroon ELSE Missing

(* Lines 139-141 and 271: root and discharge are returned to main(). *)
ExtractDischarge ==
    /\ pc = "extract"
    /\ IF DischargeOf(response) # Missing
       THEN /\ discharge' = DischargeOf(response)
            /\ Running("save")
       ELSE /\ AuthorizationFailed
            /\ UNCHANGED discharge
    /\ UNCHANGED <<fs, fs0, inv, args, reqargs, auth_path, auth_exists, loaded,
                   root, store_env, url, caveat, sso_data, headers, data,
                   response, fd, trace>>
    /\ UNCHANGED aside

(* Faulty variant: the discharge is stored as bound for the request. *)
AcquiredConfBound(r, d, env) == Conf(r, prepare_for_request(r, d), env)

(* Line 279. *)
AcquiredConf(r, d, env) == Conf(r, d, env)

(* Faulty variant: the file is opened for appending. *)
open_a(old, text) ==
    IF old \in {NoFile, EmptyText} THEN text ELSE GarbageText

(* Lines 278-280: open(auth_path, 'w') creates or truncates the file, and  *)
(* what json.dump writes is all it holds when the with block is left.      *)
open_w(old, text) == text

(* Lines 277-280: the acquired pair is written when an identifier is given. *)
SaveAcquired ==
    /\ pc = "save"
    /\ IF auth_path # NoPath
       THEN /\ fs' = [fs EXCEPT ![auth_path] =
                         open_w(fs[auth_path],
                           json_dump(AcquiredConf(root, discharge, store_env)))]
            /\ trace' = Append(trace, WriteEvent(auth_path,
                                      AcquiredConf(root, discharge, store_env)))
       ELSE UNCHANGED <<fs, trace>>
    /\ Running("build")
    /\ UNCHANGED <<fs0, inv, args, reqargs, auth_path, auth_exists, loaded,
                   root, discharge, store_env, url, caveat, sso_data, headers,
                   data, response, fd>>
    /\ UNCHANGED aside

---------------------------------------------------------------------------
(* main(), lines 282-356: the request, the refresh and the retry.          *)

(* Faulty variant: the url is built from the -s option. *)
VerifyUrlOfOption(env) ==
    <<EnvConstants(args.store).sca_base_url, "/dev/api/acl/verify/">>

(* Line 285. *)
VerifyUrl(env) == <<EnvConstants(env).sca_base_url, "/dev/api/acl/verify/">>

(* Lines 282-309: Macaroon.deserialize raises on a token that is no        *)
(* macaroon; without a url the authorization goes into the body, with one  *)
(* it goes into the Authorization header and the -H strings are split.     *)
BuildRequest ==
    /\ pc = "build"
    /\ IF ~CanBind(root, discharge)
       THEN /\ Return("crash", "MacaroonDeserializationException")
            /\ UNCHANGED <<reqargs, url, headers, data>>
       ELSE \E u \in UrlChoices, hs \in HeaderChoices :
              /\ reqargs' = [reqargs EXCEPT !.url = u, !.headers = hs]
              /\ IF u = NoValue
                 THEN /\ url' = VerifyUrl(store_env)
                      /\ data' = get_authorization_header(root, discharge)
                      /\ headers' = NoHeader
                      /\ Running("request")
                 ELSE /\ url' = <<u, "">>
                      /\ data' = NoHeader
                      /\ headers' = get_authorization_header(root, discharge)
                      /\ IF InvalidHeader(hs)
                         THEN Return("exit1", "invalid_header")
                         ELSE Running("request")
    /\ UNCHANGED <<fs, fs0, inv, args, auth_path, auth_exists, loaded, root,
                   discharge, store_env, caveat, sso_data, response, fd, trace>>
    /\ UNCHANGED aside

(* Lines 319-320. *)
SendRequest ==
    /\ pc = "request"
    /\ \E r \in OutboundResponses :
          /\ trace' = Append(trace, RequestCall(url, headers, data, r))
          /\ response' = r
          /\ IF r.net = "ok"
             THEN Running("challenge")
             ELSE Return("crash", "ConnectionError")
    /\ UNCHANGED <<fs, fs0, inv, args, reqargs, auth_path, auth_exists, loaded,
                   root, discharge, store_env, url, caveat, sso_data, headers,
                   data, fd>>
    /\ UNCHANGED aside

(* Lines 323-324 when the header is not the challenge. *)
NoRefresh ==
    /\ pc = "challenge"
    /\ ~response.needs_refresh
    /\ Running("output")
    /\ UNCHANGED <<fs, fs0, inv, args, reqargs, auth_path, auth_exists, loaded,
                   root, discharge, store_env, url, caveat, sso_data, headers,
                   data, response, fd, trace>>
    /\ UNCHANGED aside

(* Lines 323-325 and 151-157: get_refreshed_discharge; nothing catches     *)
(* what it raises.                                                         *)
Refresh ==
    /\ pc = "challenge"
    /\ response.needs_refresh
    /\ \E r \in RefreshResponses :
          /\ trace' = Append(trace, RefreshCall(store_env, discharge, r))
          /\ response' = r
          /\ IF r.net # "ok"
             THEN /\ Return("crash", "ConnectionError")
                  /\ UNCHANGED discharge
             ELSE IF DischargeOf(r) = Missing
             THEN /\ Return("crash", "KeyError")
                  /\ UNCHANGED discharge
             ELSE /\ discharge' = DischargeOf(r)
                  /\ Running("save_refreshed")
    /\ UNCHANGED <<fs, fs0, inv, args, reqargs, auth_path, auth_exists, loaded,
                   root, store_env, url, caveat, sso_data, headers, data, fd>>
    /\ UNCHANGED aside

(* Faulty variant: the record is rebuilt from the command line's store. *)
RefreshedConfFromArgs(r, d, env) == Conf(r, d, args.store)

(* Line 327. *)
RefreshedConf(r, d, env) == Conf(r, d, env)

(* Lines 326-328: open(auth_path, 'w') truncates the file, or raises       *)
(* TypeError when auth_path is None; json.dump writes into the buffer of   *)
(* the file object (a record is far smaller than the 8 KiB buffer), which  *)
(* reaches the disk when the with block is left.                           *)
SaveRefreshed ==
    /\ pc = "save_refreshed"
    /\ IF auth_path = NoPath
       THEN /\ Return("crash", "TypeError")
            /\ UNCHANGED <<fs, fd, trace>>
       ELSE /\ fs' = [fs EXCEPT ![auth_path] = EmptyText]
            /\ fd' = json_dump(RefreshedConf(root, discharge, store_env))
            /\ trace' = Append(trace, WriteEvent(auth_path,
                                      RefreshedConf(root, discharge, store_env)))
            /\ Running("retry")
    /\ UNCHANGED <<fs0, inv, args, reqargs, auth_path, auth_exists, loaded,
                   root, discharge, store_env, url, caveat, sso_data, headers,
                   data, response>>
    /\ UNCHANGED aside

(* Faulty variant: the challenge is tested again after the retry. *)
RetryRechecks == "challenge"

(* Lines 322-334: the challenge is tested by an if, once; after the retry  *)
(* main() goes on to print the response.                                   *)
RetryDone == "output"

(* Lines 329-332, inside the with block: the header is rebuilt and the     *)
(* request sent again; leaving the block, normally or by an exception,     *)
(* closes the file and flushes the buffer.                                 *)
Retry ==
    /\ pc = "retry"
    /\ fs' = [fs EXCEPT ![auth_path] = fd]
    /\ fd' = NoFile
    /\ IF ~CanBind(root, discharge)
       THEN /\ Return("crash", "MacaroonDeserializationException")
            /\ UNCHANGED <<headers, response, trace>>
       ELSE /\ headers' = get_authorization_header(root, discharge)
            /\ \E r \in OutboundResponses :
                  /\ trace' = Append(trace,
                                     RequestCall(url, headers', data, r))
                  /\ response' = r
                  /\ IF r.net = "ok"
                     THEN Running(RetryDone)
                     ELSE Return("crash", "ConnectionError")
    /\ UNCHANGED <<fs0, inv, args, reqargs, auth_path, auth_exists, loaded,
                   root, discharge, store_env, url, caveat, sso_data, data>>
    /\ UNCHANGED aside

(* The body of a streamed response: JSON, other text, or a connection     *)
(* that breaks while the body is read.                                     *)
Bodies == {"json", "text", "broken"}

(* Lines 344-356: the body is read (the request was made with stream=True) *)
(* and printed; --pretty parses it first and raises when it is not JSON.   *)
Output ==
    /\ pc = "output"
    /\ \E pretty \in BOOLEAN, body \in Bodies :
          /\ reqargs' = [reqargs EXCEPT !.pretty = pretty]
          /\ IF body = "broken"
             THEN Return("crash", "ChunkedEncodingError")
             ELSE IF pretty /\ body # "json"
             THEN Return("crash", "JSONDecodeError")
             ELSE Return("exit0", "")
    /\ UNCHANGED <<fs, fs0, inv, args, auth_path, auth_exists, loaded, root,
                   discharge, store_env, url, caveat, sso_data, headers, data,
                   response, fd, trace>>
    /\ UNCHANGED aside

---------------------------------------------------------------------------
Next ==
    \/ ParseArgs
    \/ Migrate
    \/ Load
    \/ CheckEmail
    \/ IssueRoot
    \/ Discharge
    \/ TwoFactor
    \/ ExtractDischarge
    \/ SaveAcquired
    \/ BuildRequest
    \/ SendRequest
    \/ NoRefresh
    \/ Refresh
    \/ SaveRefreshed
    \/ Retry
    \/ Output

Spec == Init /\ [][Next]_vars

(* A started invocation runs on: main() is sequential code, and every      *)
(* network call returns a response or raises.  Starting another invocation *)
(* is up to the user.                                                      *)
Step ==
    \/ Migrate
    \/ Load
    \/ CheckEmail
    \/ IssueRoot
    \/ Discharge
    \/ TwoFactor
    \/ ExtractDischarge
    \/ SaveAcquired
    \/ BuildRequest
    \/ SendRequest
    \/ NoRefresh
    \/ Refresh
    \/ SaveRefreshed
    \/ Retry
    \/ Output

(* One invocation, started over any directory an earlier invocation or    *)
(* the user can have left: what an invocation does depends on nothing of   *)
(* the earlier ones but the directory.                                     *)
LiveDirs ==
    {Dir(a, l) :
       a \in {NoFile, GarbageText, BinaryText,
              json_dump(StoredSample),
              json_dump(Conf(RootTok(1), Garbage, "staging")),
              json_dump(Conf(RootTok(1), DTok(1), NoEnv))},
       l \in {NoFile, json_dump(LegacySample)}}

InitLive ==
    /\ fs \in LiveDirs
    /\ fs0 = fs
    /\ inv = 0
    /\ pc = "idle"
    /\ args = NoArgs
    /\ reqargs = NoReqArgs
    /\ Locals0
    /\ todo = {}
    /\ stdout = <<>>
    /\ peer = NoPeer

StartOnce == inv = 0 /\ ParseArgs

NextLive ==
    \/ StartOnce
    \/ Step

SpecLive == InitLive /\ [][NextLive]_vars /\ WF_vars(Step)

---------------------------------------------------------------------------
(* Two invocations at once: while one runs, another one, started with      *)
(* -a for the same identifier and without --force, goes through lines      *)
(* 245-264.  Nothing in the code locks the file.                           *)

(* Lines 255-264 as the other invocation meets them, for the text it read. *)
LoadOutcome(text) ==
    IF text = NoFile THEN "not_found"
    ELSE IF ~Decodes(text) THEN "UnicodeDecodeError"
    ELSE IF ~Parses(text) THEN "broken_file"
    ELSE IF ~(HasKey(json_load(text), "root")
              /\ HasKey(json_load(text), "discharge")
              /\ HasKey(json_load(text), "store")) THEN "KeyError"
    ELSE "loaded"

(* Lines 245-264 of the other invocation: the legacy file is renamed if    *)
(* there is one, and the file of the identifier is read as the disk holds  *)
(* it at that moment.                                                      *)
PeerLoad ==
    /\ peer = NoPeer
    /\ \E a \in Idents :
          /\ fs' = MigrateLegacy(fs, a)
          /\ peer' = [text |-> fs'[AuthPath(a)],
                      outcome |-> LoadOutcome(fs'[AuthPath(a)])]
    /\ UNCHANGED <<fs0, inv, pc, args, reqargs, auth_path, auth_exists, loaded,
                   root, discharge, store_env, url, caveat, sso_data, headers,
                   data, response, fd, trace, outcome, msg, todo, stdout>>

NextConc ==
    \/ StartOnce
    \/ Step
    \/ PeerLoad

SpecConc == Init /\ [][NextConc]_vars

---------------------------------------------------------------------------
(* main(), lines 223-235: surl --list-auth over a directory of several     *)
(* files.                                                                  *)

(* File names of the listed directory: the stores of -a foo, -a bar and    *)
(* -a baz.surl, and one unsuffixed legacy file.                            *)
ListIdents == {"foo", "bar", "baz.surl"}
ListPaths == {AuthPath(i) : i \in ListIdents} \cup {LegacyPath("foo")}

(* Line 226: fn.endswith('.surl'). *)
endswith_surl(fn) == fn.suffix = ".surl"

(* Line 227: fn.replace('.surl', '') removes every occurrence. *)
replace_surl(fn) ==
    CASE fn.ident = "baz.surl" -> "baz"
      [] OTHER -> fn.ident

ListTexts ==
    {NoFile, EmptyText, GarbageText, BinaryText,
     json_dump(StoredSample), json_dump(LegacySample),
     json_dump(Conf(RootTok(1), DTok(1), NoEnv)),
     json_dump(Conf(Missing, Missing, "local"))}
ListDirs ==
    {[p \in ListPaths |->
         IF p.suffix = ".surl" THEN t[p.ident] ELSE l] :
       t \in [ListIdents -> ListTexts],
       l \in {NoFile, json_dump(LegacySample)}}

InitList ==
    /\ fs \in ListDirs
    /\ fs0 = fs
    /\ inv = 0
    /\ pc = "idle"
    /\ args = NoArgs
    /\ reqargs = NoReqArgs
    /\ Locals0
    /\ todo = {}
    /\ stdout = <<>>
    /\ peer = NoPeer

(* Lines 219-225: --list-auth was given; os.listdir names the files in an  *)
(* arbitrary order.                                                        *)
ListStart ==
    /\ pc = "idle"
    /\ inv' = inv + 1
    /\ todo' = {p \in DOMAIN fs : Exists(fs, p)}
    /\ Running("list")
    /\ UNCHANGED <<fs, fs0, args, reqargs, auth_path, auth_exists, loaded,
                   root, discharge, store_env, url, caveat, sso_data, headers,
                   data, response, fd, trace, stdout, peer>>

(* Lines 225-234: one round of the loop.  Only JSONDecodeError is caught:  *)
(* a['store'] on an object without that key raises KeyError, and reading   *)
(* bytes that are no text raises UnicodeDecodeError.                       *)
ListEntry ==
    /\ pc = "list"
    /\ \E fn \in todo :
          /\ todo' = todo \ {fn}
          /\ IF ~endswith_surl(fn)
             THEN /\ Running("list")
                  /\ UNCHANGED stdout
             ELSE IF ~Decodes(fs[fn])
             THEN /\ Return("crash", "UnicodeDecodeError")
                  /\ UNCHANGED stdout
             ELSE IF ~Parses(fs[fn])
             THEN /\ Running("list")
                  /\ UNCHANGED stdout
             ELSE IF ~HasKey(json_load(fs[fn]), "store")
             THEN /\ Return("crash", "KeyError")
                  /\ UNCHANGED stdout
             ELSE /\ stdout' = Append(stdout, <<replace_surl(fn),
                                                json_load(fs[fn]).store>>)
                  /\ Running("list")
    /\ UNCHANGED <<fs, fs0, inv, args, reqargs, auth_path, auth_exists, loaded,
                   root, discharge, store_env, url, caveat, sso_data, headers,
                   data, response, fd, trace, peer>>

(* Line 235. *)
ListReturn ==
    /\ pc = "list"
    /\ todo = {}
    /\ Return("exit0", "")
    /\ UNCHANGED <<fs, fs0, inv, args, reqargs, auth_path, auth_exists, loaded,
                   root, discharge, store_env, url, caveat, sso_data, headers,
                   data, response, fd, trace, todo, stdout, peer>>

NextList ==
    \/ ListStart
    \/ ListEntry
    \/ ListReturn

SpecList == InitList /\ [][NextList]_vars

---------------------------------------------------------------------------
(* Vocabulary of the properties: what the trace of an invocation shows.    *)

Idx(op) == {i \in DOMAIN trace : trace[i].op = op}
Count(op) == Cardinality(Idx(op))
Done == pc = "done"

(* The directory as the legacy migration of this invocation left it. *)
MigratedDir ==
    IF args.auth # NoIdent THEN MigrateLegacy(fs0, args.auth) ELSE fs0

(* Call i is a refresh call that returned a discharge. *)
RefreshReturned(i) ==
    /\ trace[i].op = "refresh"
    /\ trace[i].answer.net = "ok"
    /\ trace[i].answer.json
    /\ trace[i].answer.discharge_macaroon # Missing
Refreshed(i) == trace[i].answer.discharge_macaroon

(* The answer is the 401 TWOFACTOR_REQUIRED challenge. *)
IsTwoFactorChallenge(a) ==
    a.net = "ok" /\ a.status = 401 /\ a.json /\ a.code = "TWOFACTOR_REQUIRED"

(* The answer carries no discharge_macaroon the caller could take. *)
LacksDischarge(a) ==
    a.net # "ok" \/ ~a.json \/ a.discharge_macaroon = Missing

(* The caveats of a root token that sit at a location. *)
CaveatsAt(tok, loc) ==
    {i \in DOMAIN third_party_caveats(tok) :
        third_party_caveats(tok)[i].location = loc}

(* The invocation's retried request was answered with the challenge. *)
RetryChallenged ==
    /\ Count("request") = 2
    /\ trace[Len(trace)].op = "request"
    /\ trace[Len(trace)].answer.net = "ok"
    /\ trace[Len(trace)].answer.needs_refresh

(* get_store_authorization was called and raised: no macaroon field, a     *)
(* root that cannot be parsed, no single matching caveat, or a last        *)
(* discharge answer without a discharge_macaroon.                          *)
AcquisitionFailed ==
    /\ trace # <<>>
    /\ trace[1].op = "acl"
    /\ LET a == trace[1].answer
       IN  \/ a.net # "ok" \/ ~a.json \/ a.macaroon = Missing
           \/ a.macaroon.t # "R"
           \/ Cardinality(CaveatsAt(a.macaroon,
                                    EnvConstants(args.store).sso_location)) # 1
           \/ \E i \in Idx("discharge") :
                 /\ \A j \in Idx("discharge") : j <= i
                 /\ LacksDischarge(trace[i].answer)

---------------------------------------------------------------------------
(* Properties.                                                             *)

(* C1: when an invocation that loaded (root, discharge, env) from the      *)
(* store has ended after the refresh endpoint returned D', the stored file *)
(* is exactly the record (root, D', env): refresh changes neither the root *)
(* nor the environment.                                                    *)
C1_RefreshKeepsRootAndEnv ==
    \A i \in DOMAIN trace :
        (Done /\ loaded # NullObj /\ RefreshReturned(i))
        => fs[auth_path] =
             json_dump(Conf(loaded.root, Refreshed(i), loaded.store))

C1_Witness ==
    /\ Done
    /\ loaded # NullObj
    /\ args.store # loaded.store
    /\ \E i \in DOMAIN trace :
          /\ RefreshReturned(i)
          /\ Refreshed(i) # loaded.discharge
          /\ fs[auth_path] =
               json_dump(Conf(loaded.root, Refreshed(i), loaded.store))

(* C2: whenever a request was answered with the needs_refresh challenge    *)
(* and the refresh endpoint returned a discharge D3, the invocation ends   *)
(* with the record (root, D3, env) written to the store right after the    *)
(* refresh call, and with a retried request sent after that write whose    *)
(* Authorization header is built from D3.                                  *)
C2_RefreshSaveRetry ==
    \A i \in DOMAIN trace :
        (Done /\ RefreshReturned(i) /\ Deserializable(Refreshed(i)))
        => /\ i + 2 \in DOMAIN trace
           /\ trace[i + 1].op = "write"
           /\ trace[i + 1].conf = Conf(root, Refreshed(i), store_env)
           /\ fs[auth_path] = json_dump(Conf(root, Refreshed(i), store_env))
           /\ trace[i + 2].op = "request"
           /\ trace[i + 2].Authorization.scheme = "Macaroon"
           /\ trace[i + 2].Authorization.discharge.d = Refreshed(i)

(* C3: an invocation whose first request was answered with the challenge   *)
(* and whose refresh call succeeded has sent the request exactly twice     *)
(* when it ends: the original and one retry, with or without identifier.   *)
C3_RetriedExactlyOnce ==
    (Done /\ \E i \in DOMAIN trace :
                 RefreshReturned(i) /\ Deserializable(Refreshed(i)))
    => Count("request") = 2

(* C4, as claimed: when the retried request is answered with the challenge *)
(* there is no second refresh call, no third request, and the invocation   *)
(* does not end with a success exit.                                       *)
C4_SecondChallengeIsError ==
    (Done /\ RetryChallenged)
    => /\ Count("refresh") = 1
       /\ Count("request") = 2
       /\ outcome # "exit0"

(* C4, amended: when the retried request is answered with the challenge    *)
(* there is no second refresh call and no third request; the challenged    *)
(* response is printed like any other and the invocation exits 0, unless   *)
(* reading its body or, with --pretty, parsing it fails.                   *)
C4_SecondChallengeNotHonored ==
    RetryChallenged
    => /\ Count("refresh") = 1
       /\ pc \in {"output", "done"}
       /\ Done => \/ outcome = "exit0"
                  \/ outcome = "crash" /\ msg = "ChunkedEncodingError"
                  \/ /\ outcome = "crash"
                     /\ msg = "JSONDecodeError"
                     /\ reqargs.pretty

C4_Witness ==
    Done /\ RetryChallenged /\ outcome = "exit0" /\ Count("refresh") = 1

(* C5: once the SCA has issued a root token that deserializes: with        *)
(* exactly one third-party caveat at the environment's sso_location the    *)
(* next call is the discharge call and carries that caveat's id; with none *)
(* or several, acquisition has failed, the root-issuance call is the only  *)
(* network call and nothing was written.                                   *)
C5_CaveatSelection ==
    (/\ trace # <<>>
     /\ trace[1].op = "acl"
     /\ trace[1].answer.net = "ok"
     /\ trace[1].answer.json
     /\ trace[1].answer.macaroon.t = "R")
    => LET m == trace[1].answer.macaroon
           at == CaveatsAt(m, EnvConstants(args.store).sso_location)
       IN  IF Cardinality(at) = 1
           THEN \/ pc = "discharge"
                \/ /\ Len(trace) >= 2
                   /\ trace[2].op = "discharge"
                   /\ \A k \in at :
                         trace[2].caveat_id =
                             third_party_caveats(m)[k].caveat_id
           ELSE /\ Done
                /\ outcome = "exit1"
                /\ msg = "auth_failed"
                /\ Len(trace) = 1
                /\ fs = MigratedDir

C5_Witness ==
    /\ Done
    /\ Len(trace) = 1
    /\ trace[1].op = "acl"
    /\ trace[1].answer.macaroon = RootTok(4)
    /\ args.store = "staging"
    /\ msg = "auth_failed"

(* C6: an invocation makes at most two discharge calls; the first carries  *)
(* no otp; a second one is made exactly when the first was answered 401    *)
(* TWOFACTOR_REQUIRED, and it carries the otp; acquisition then returns    *)
(* the discharge of the second answer, and fails when the second answer is *)
(* again the bare TWOFACTOR_REQUIRED challenge.                            *)
C6_TwoFactorStep ==
    LET D == Idx("discharge")
    IN  /\ Cardinality(D) <= 2
        /\ \A i \in D :
              (\A j \in D : i <= j)
              => /\ ~trace[i].otp
                 /\ IsTwoFactorChallenge(trace[i].answer)
                    => pc = "twofactor" \/ Cardinality(D) = 2
        /\ \A i, j \in D :
              i < j
              => /\ trace[j].otp
                 /\ IsTwoFactorChallenge(trace[i].answer)
                 /\ trace[j].caveat_id = trace[i].caveat_id
                 /\ pc = "save"
                    => discharge = trace[j].answer.discharge_macaroon
                 /\ (/\ IsTwoFactorChallenge(trace[j].answer)
                     /\ trace[j].answer.discharge_macaroon = Missing)
                    => \/ pc = "extract"
                       \/ Done /\ outcome = "exit1" /\ msg = "auth_failed"

C6_Witness ==
    /\ pc = "save"
    /\ Count("discharge") = 2
    /\ \E i, j \in Idx("discharge") :
          /\ i < j
          /\ ~trace[i].otp
          /\ trace[j].otp
          /\ trace[i].answer.discharge_macaroon = DTok(1)
          /\ discharge = DTok(2)

(* C7: a discharge answer that is non-success and is not the 401           *)
(* TWOFACTOR_REQUIRED challenge is the last discharge call of the          *)
(* invocation and makes acquisition fail, whatever its body holds.         *)
C7_NonSuccessFails ==
    \A i \in Idx("discharge") :
        LET a == trace[i].answer
        IN  (a.net = "ok" /\ a.status \notin 200..299
                          /\ ~IsTwoFactorChallenge(a))
            => /\ \A j \in Idx("discharge") : j <= i
               /\ \/ pc \in {"twofactor", "extract"}
                  \/ Done /\ outcome = "exit1" /\ msg = "auth_failed"

(* C8, as claimed: when acquisition has failed the stored file of the      *)
(* identifier is as it was before the invocation and no outbound request   *)
(* was made.                                                               *)
C8_FailureLeavesFileAsBefore ==
    (Done /\ AcquisitionFailed)
    => /\ Count("request") = 0
       /\ args.auth # NoIdent
          => fs[AuthPath(args.auth)] = fs0[AuthPath(args.auth)]

(* C8, amended: when acquisition has failed nothing was written by it: the *)
(* directory is as the legacy migration at the start of the invocation     *)
(* left it (a legacy file, when there was one, renamed onto the suffixed   *)
(* path), and no outbound request was made.                                *)
C8_FailurePersistsNothing ==
    (Done /\ AcquisitionFailed)
    => /\ Count("request") = 0
       /\ Count("write") = 0
       /\ fs = MigratedDir
       /\ outcome = "exit1"

C8_Witness ==
    /\ Done
    /\ AcquisitionFailed
    /\ args.force
    /\ Count("discharge") = 2
    /\ fs0[AuthPath("foo")] = json_dump(StoredSample)
    /\ fs = fs0

(* C9: an invocation that ended on an input error (no email where one is   *)
(* needed, a -H string that does not split into a name and a value) made   *)
(* no network call and wrote no credential file.                           *)
C9_InputErrorsBeforeNetwork ==
    (Done /\ msg \in {"needs_email", "invalid_header"})
    => /\ outcome = "exit1"
       /\ trace = <<>>

(* C10: after the migration step the legacy file was renamed only if it    *)
(* existed and the suffixed file did not, a suffixed file that existed is  *)
(* unaltered, and migrating again changes nothing.                         *)
C10_MigrationNeverOverwrites ==
    (pc = "credential" /\ args.auth # NoIdent)
    => LET a == AuthPath(args.auth)
           l == LegacyPath(args.auth)
       IN  /\ fs # fs0 => Exists(fs0, l) /\ ~Exists(fs0, a)
           /\ Exists(fs0, a) => fs[a] = fs0[a]
           /\ MigrateLegacy(fs, args.auth) = fs

(* C11: a listing that has ended has ended normally, and has printed       *)
(* exactly one (identifier, environment) pair for each suffixed file that  *)
(* parses and carries a store field, and nothing for any other file.       *)
C11_ListingSkipsBadFiles ==
    Done
    => LET good == {p \in DOMAIN fs :
                      /\ p.suffix = ".surl"
                      /\ fs[p].kind = "json"
                      /\ fs[p].obj.store # NoEnv}
       IN  /\ outcome = "exit0"
           /\ Len(stdout) = Cardinality(good)
           /\ {stdout[i] : i \in DOMAIN stdout} =
                 {<<p.ident, fs[p].obj.store>> : p \in good}

(* C12: an invocation that has ended after reading, at line 256, a stored  *)
(* file that is no JSON text has ended with the broken-file message and    *)
(* exit code 1, has made no network call, and has left the directory as    *)
(* it was when the file was read.                                          *)
C12_UnparsableFileIsReported ==
    (/\ Done
     /\ args.auth # NoIdent
     /\ ~args.force
     /\ MigratedDir[AuthPath(args.auth)].kind \notin {"nofile", "json"})
    => /\ outcome = "exit1"
       /\ msg = "broken_file"
       /\ trace = <<>>
       /\ fs = MigratedDir

(* The last write of the invocation. *)
LastWrite(i) ==
    /\ i \in Idx("write")
    /\ \A j \in Idx("write") : j <= i

(* C13: when an invocation that saved a credential has ended, the file of  *)
(* the identifier holds exactly the record saved last, whether or not a    *)
(* file was there before; and an invocation that loads the identifier gets *)
(* root, discharge and environment of the record the file holds, makes no  *)
(* root-issuance and no discharge call, and writes nothing and leaves the  *)
(* directory alone as long as no refresh call was made.                    *)
C13_RoundTrip ==
    /\ \A i \in DOMAIN trace :
          (Done /\ LastWrite(i))
          => fs[trace[i].path] = [kind |-> "json", obj |-> trace[i].conf]
    /\ loaded # NullObj
       => /\ MigratedDir[auth_path] = [kind |-> "json", obj |-> loaded]
          /\ root = loaded.root
          /\ store_env = loaded.store
          /\ Count("acl") = 0
          /\ Count("discharge") = 0
          /\ Count("refresh") = 0
             => /\ discharge = loaded.discharge
                /\ Count("write") = 0
                /\ fs = MigratedDir

(* The second invocation has loaded a credential that only the first one   *)
(* can have saved, and has ended without rewriting the file.               *)
C13_Witness ==
    /\ inv = 2
    /\ Done
    /\ outcome = "exit0"
    /\ loaded = Conf(RootTok(2), DTok(2), "production")
    /\ Count("refresh") = 0
    /\ fs[auth_path] = [kind |-> "json", obj |-> loaded]

(* The discharge the invocation held before any refresh: the stored one,   *)
(* or the one of the last discharge answer.                                *)
HeldDischarge ==
    IF loaded # NullObj THEN loaded.discharge
    ELSE LET i == CHOOSE k \in Idx("discharge") :
                      \A j \in Idx("discharge") : j <= k
         IN  trace[i].answer.discharge_macaroon

(* The directory as the writes of the invocation's trace leave it. *)
WrittenDir ==
    IF Idx("write") = {} THEN MigratedDir
    ELSE LET i == CHOOSE k \in DOMAIN trace : LastWrite(k)
         IN  [MigratedDir EXCEPT
                 ![trace[i].path] = [kind |-> "json", obj |-> trace[i].conf]]

(* C14: the refresh call carries the discharge the invocation held and     *)
(* nothing else; when the call got no answer, or an answer whose body is   *)
(* no JSON or has no discharge_macaroon, the invocation has ended in an    *)
(* error with that call as its last step: one refresh call, one outbound   *)
(* request, no write after the call, the stored file as it was before it.  *)
C14_FailedRefreshIsFatal ==
    \A i \in Idx("refresh") :
        /\ \A j \in Idx("refresh") : j >= i
           => trace[i].discharge_macaroon = HeldDischarge
        /\ (\/ trace[i].answer.net # "ok"
            \/ ~trace[i].answer.json
            \/ trace[i].answer.discharge_macaroon = Missing)
           => /\ Done
              /\ outcome = "crash"
              /\ i = Len(trace)
              /\ Count("refresh") = 1
              /\ Count("request") = 1
              /\ discharge = HeldDischarge
              /\ fs = WrittenDir

C14_Witness ==
    /\ Done
    /\ outcome = "crash"
    /\ msg = "KeyError"
    /\ loaded = StoredSample
    /\ trace[Len(trace)].op = "refresh"
    /\ trace[Len(trace)].answer.status = 401
    /\ fs[auth_path] = [kind |-> "json", obj |-> StoredSample]

(* The calls of the invocation so far are within the budget, and a call    *)
(* that got no answer is the last thing the invocation did.                *)
CallBudget ==
    /\ Count("acl") <= 1
    /\ Count("discharge") <= 2
    /\ Count("refresh") <= 1
    /\ Count("request") <= 2
    /\ \A i \in DOMAIN trace :
          (trace[i].op # "write" /\ trace[i].answer.net # "ok")
          => /\ i = Len(trace)
             /\ Done
             /\ outcome \in {"exit1", "crash"}

(* C15: every started invocation ends; at every moment it has made at most *)
(* one root-issuance call, two discharge calls, one refresh call and two   *)
(* outbound requests; and a network failure ends it with no further call.  *)
C15_TerminatesWithinCallBudget ==
    /\ []CallBudget
    /\ (pc \notin {"idle", "done"}) ~> Done

C15_Witness ==
    /\ Done
    /\ Count("acl") = 1
    /\ Count("discharge") = 2
    /\ Count("refresh") = 1
    /\ Count("request") = 2
    /\ trace[Len(trace)].answer.net = "fail"

(* The discharge in force when step i of the trace was taken: the one a    *)
(* refresh call returned before it, or else the one held from the start.   *)
DischargeAt(i) ==
    IF \E k \in DOMAIN trace : k < i /\ RefreshReturned(k)
    THEN Refreshed(CHOOSE k \in DOMAIN trace : k < i /\ RefreshReturned(k))
    ELSE HeldDischarge

(* C16: every record the invocation wrote holds, as its discharge, the     *)
(* token the SSO returned last (from the discharge or the refresh          *)
(* endpoint) and never a bound discharge; and every outbound request       *)
(* carries an authorization whose discharge was bound, for that request,   *)
(* from the root and the discharge in force.                               *)
C16_StoredDischargeUnbound ==
    /\ \A i \in Idx("write") :
          /\ trace[i].conf.discharge.t # "bound"
          /\ trace[i].conf.discharge = DischargeAt(i)
          /\ \E k \in Idx("discharge") \cup Idx("refresh") :
                /\ k < i
                /\ trace[k].answer.discharge_macaroon
                     = trace[i].conf.discharge
    /\ \A p \in DOMAIN fs :
          fs[p].kind = "json" => fs[p].obj.discharge.t # "bound"
    /\ \A i \in Idx("request") :
          \E h \in {trace[i].Authorization, trace[i].auth_data} :
              /\ h.scheme = "Macaroon"
              /\ h.root = root
              /\ h.discharge =
                    [t |-> "bound", root |-> root, d |-> DischargeAt(i)]

C16_Witness ==
    /\ Done
    /\ outcome = "exit0"
    /\ Count("write") = 2
    /\ Count("request") = 2
    /\ fs[auth_path].kind = "json"
    /\ fs[auth_path].obj.discharge = DTok(2)
    /\ trace[Len(trace)].Authorization.discharge.d = DTok(2)

(* The SCA issued a root with one matching caveat and the SSO answered the *)
(* first discharge call with a discharge_macaroon, without asking for the  *)
(* second factor.                                                          *)
AcquiredWithoutTwoFactor ==
    /\ Len(trace) >= 2
    /\ trace[1].op = "acl"
    /\ trace[1].answer.net = "ok"
    /\ trace[1].answer.json
    /\ trace[1].answer.macaroon.t = "R"
    /\ Cardinality(CaveatsAt(trace[1].answer.macaroon,
                             EnvConstants(args.store).sso_location)) = 1
    /\ trace[2].op = "discharge"
    /\ trace[2].answer.net = "ok"
    /\ trace[2].answer.json
    /\ trace[2].answer.discharge_macaroon # Missing
    /\ ~IsTwoFactorChallenge(trace[2].answer)

(* C17: the root-issuance call carries the permissions given, or the       *)
(* single permission package_access when none was given; and when the SCA  *)
(* returned R with one matching caveat and the SSO answered the first      *)
(* discharge call with D and no challenge, acquisition returns (R, D)      *)
(* after one root-issuance and one discharge call, and with an identifier  *)
(* the record written next is exactly (R, D, selected environment).        *)
C17_AcquisitionWithoutTwoFactor ==
    /\ \A i \in Idx("acl") :
          trace[i].permissions =
              IF args.permissions = NoValue THEN <<"package_access">>
              ELSE <<args.permissions>>
    /\ (AcquiredWithoutTwoFactor /\ pc \notin {"twofactor", "extract"})
       => LET R == trace[1].answer.macaroon
              D == trace[2].answer.discharge_macaroon
          IN  /\ Count("acl") = 1
              /\ Count("discharge") = 1
              /\ msg # "auth_failed"
              /\ root = R
              /\ Count("refresh") = 0 => discharge = D
              /\ (args.auth # NoIdent /\ pc # "save")
                 => /\ Len(trace) >= 3
                    /\ trace[3] = [op |-> "write",
                                   path |-> AuthPath(args.auth),
                                   conf |-> Conf(R, D, args.store)]
                    /\ Count("write") = 1
                       => fs[AuthPath(args.auth)] =
                            [kind |-> "json",
                             obj |-> Conf(R, D, args.store)]

C17_Witness ==
    /\ AcquiredWithoutTwoFactor
    /\ Done
    /\ outcome = "exit0"
    /\ args.permissions = NoValue
    /\ trace[1].permissions = <<"package_access">>
    /\ args.auth = "foo"
    /\ args.store = "production"
    /\ fs[AuthPath("foo")] =
          [kind |-> "json",
           obj |-> Conf(RootTok(2), DTok(2), "production")]

(* C18: in a request sent after the refresh endpoint returned a discharge, *)
(* every authorization value the request holds, the Authorization header   *)
(* and the authorization of the body, is bound from that discharge.        *)
C18_RetryCarriesNoStaleAuthorization ==
    \A k \in DOMAIN trace : \A i \in Idx("request") :
        (RefreshReturned(k) /\ k < i)
        => \A h \in {trace[i].Authorization, trace[i].auth_data} :
               h.scheme = "Macaroon" => h.discharge.d = Refreshed(k)

(* C19: what another invocation reads when it loads the identifier while   *)
(* this one runs is no file, a complete record, or the text the file held  *)
(* before this invocation started; and it ends with the broken-file        *)
(* message only if the file was unparsable before this invocation started. *)
C19_ConcurrentLoadSeesCompleteFile ==
    peer # NoPeer
    => /\ \/ peer.text.kind \in {"nofile", "json"}
          \/ peer.text = fs0[AuthPath("foo")]
       /\ peer.outcome = "broken_file"
          => /\ fs0[AuthPath("foo")].kind \notin {"nofile", "json"}
             /\ peer.text = fs0[AuthPath("foo")]

(* The environment that governs the invocation: the one recorded in the    *)
(* file when the credential was loaded, the -s option when it is acquired. *)
GoverningEnv == IF loaded # NullObj THEN loaded.store ELSE args.store

(* C20: when the credential was loaded, the default verification request   *)
(* and the refresh call go to the endpoints of the environment recorded in *)
(* the file, whatever -s selected, and that environment is the one written *)
(* back; when it is acquired, the calls go to the endpoints of the -s      *)
(* environment, which is the one persisted.                                *)
C20_StoredEnvironmentGoverns ==
    /\ \A i \in Idx("request") :
          reqargs.url = NoValue
          => trace[i].url = <<EnvConstants(GoverningEnv).sca_base_url,
                              "/dev/api/acl/verify/">>
    /\ \A i \in Idx("refresh") :
          trace[i].url = EnvConstants(GoverningEnv).sso_base_url
    /\ \A i \in Idx("write") : trace[i].conf.store = GoverningEnv
    /\ \A i \in Idx("acl") :
          /\ loaded = NullObj
          /\ trace[i].url = EnvConstants(args.store).sca_base_url
    /\ \A i \in Idx("discharge") :
          /\ loaded = NullObj
          /\ trace[i].url = EnvConstants(args.store).sso_base_url

C20_Witness ==
    /\ Done
    /\ loaded = StoredSample
    /\ args.store = "production"
    /\ reqargs.url = NoValue
    /\ Count("request") = 2
    /\ Count("refresh") = 1
    /\ trace[1].url = <<"https://dashboard.staging.snapcraft.io",
                        "/dev/api/acl/verify/">>
    /\ trace[2].url = "https://login.staging.ubuntu.com"
    /\ fs[auth_path].obj.store = "staging"

===========================================================================
